---- MODULE Spec2Model ----
(***************************************************************************)
(* Peer-to-peer voice coordination core of comsecure-backend: the React    *)
(* hook useVoiceChat (hooks/useVoiceChat) and the VoiceControls component  *)
(* that drives it.                                                         *)
(*                                                                         *)
(* One hook instance is a record of its React state (useState cells), its  *)
(* refs (useRef cells) and the asynchronous connectToVoice invocations     *)
(* that are suspended at an await.  Every handler of the hook is a pure    *)
(* operator from a hook record to a hook record, so that a handler that    *)
(* calls another handler is the composition of the two operators.  An      *)
(* action of the state machine is one task of the browser event loop: a   *)
(* user operation, the resumption of a suspended connectToVoice, a         *)
(* callback of the realtime channel or a callback of a peer connection.    *)
(*                                                                         *)
(* The realtime relay and the peer connection library are collaborators    *)
(* outside the repository; the events they deliver are inputs.  The only   *)
(* facts assumed about them:                                               *)
(*   - a channel delivers events from subscribe() until unsubscribe();     *)
(*   - a failure of getUserMedia(), subscribe() or track() is a rejected   *)
(*     promise;                                                            *)
(*   - a peer connection emits 'close' once after destroy(), emits         *)
(*     'error' immediately followed by 'close' on a failure, and emits     *)
(*     nothing after 'close'.                                              *)
(***************************************************************************)
EXTENDS Integers, Sequences, FiniteSets, Bags, TLC

VARIABLES hooks, mounted, members

vars == <<hooks, mounted, members>>

(***************************************************************************)
(* Bounds of the model.                                                    *)
(***************************************************************************)
\* connectToVoice invocations suspended at an await at the same time
MaxAttempts == 2
\* peer connection objects that are alive (or closing) outside peersRef
MaxDetached == 1
\* media streams / channels that were overwritten in their ref while open
MaxLeaked == 1
\* broadcasts handed to the relay and not delivered yet, per hook
MaxSent == 1

(***************************************************************************)
(* Identities.  A nickname is a JavaScript string; Chars gives its code    *)
(* units (a=1 .. z=26) and LexLess is the < of JavaScript on strings.      *)
(***************************************************************************)
Ids == {"alice", "bob", "carol"}

Chars(id) ==
  CASE id = "alice" -> <<1, 12, 9, 3, 5>>
    [] id = "bob"   -> <<2, 15, 2>>
    [] id = "carol" -> <<3, 1, 18, 15, 12>>

RECURSIVE SeqLess(_, _)
SeqLess(s, t) ==
  IF s = <<>> THEN t # <<>>
  ELSE IF t = <<>> THEN FALSE
  ELSE IF Head(s) # Head(t) THEN Head(s) < Head(t)
  ELSE SeqLess(Tail(s), Tail(t))

LexLess(a, b) == SeqLess(Chars(a), Chars(b))

(***************************************************************************)
(* Values.                                                                 *)
(***************************************************************************)
NULL == "null"
MicrophoneDenied ==
  "Microphone access denied. Please allow microphone access and try again."
ConnectFailed ==
  "Failed to connect to voice chat. Please check your microphone permissions."

\* entry of voiceUsers built by the presence sync handler
DefaultUser == [isMuted |-> FALSE, isSpeaking |-> FALSE, audioLevel |-> 0]

(***************************************************************************)
(* Audio levels.  The analyser delivers frequencyBinCount bytes; detectVoice*)
(* takes their average and divides it by 128, so a level is total / (128 * *)
(* frequencyBinCount) for the byte sum `total`, capped at 1.  A level is   *)
(* kept as the integer n that stands for n / LevelScale.  Both divisions   *)
(* are by powers of two and exact in floating point, and no n / LevelScale *)
(* is within rounding distance of 0.05 or 0.15, so the comparisons of the  *)
(* code are the integer comparisons of Exceeds.                            *)
(***************************************************************************)
fftSize == 256
frequencyBinCount == fftSize \div 2
LevelScale == frequencyBinCount * 128
\* thresholds of detectVoice, in 1/100
BroadcastThreshold == 5
SpeakingThreshold == 15

\* mutation: the level without Math.min
normalizedLevelUnclamped(total) == total

\* Math.min(average / 128, 1) with average = total / frequencyBinCount
normalizedLevel(total) == IF total > LevelScale THEN LevelScale ELSE total

\* level > h / 100
Exceeds(level, h) == level * 100 > h * LevelScale

\* byte sums the analyser delivers: silence, around both thresholds, an
\* average of exactly 128, and all bytes 255
ByteSums == {0, 819, 820, 2457, 2458, LevelScale, 255 * frequencyBinCount}

\* voice_activity payloads a remote participant sends: the sample of
\* toggleMute and a sample of the sampling loop
ActivitySamples ==
  { [isMuted |-> TRUE,  isSpeaking |-> FALSE, audioLevel |-> 0],
    [isMuted |-> FALSE, isSpeaking |-> TRUE,  audioLevel |-> 3277] }

NoStream == [held |-> FALSE, enabled |-> FALSE]
NoChannel == [open |-> FALSE, tracked |-> FALSE, id |-> NULL]
\* values of the channelId prop; a hook is mounted with the first one
ChannelIds == {"general", "random"}
NoAttempts == [media |-> 0, subscribe |-> 0, track |-> 0]

\* finite maps
EmptyMap == [k \in {} |-> TRUE]
Put(f, k, v) == [x \in DOMAIN f \cup {k} |-> IF x = k THEN v ELSE f[x]]
Remove(f, k) == [x \in DOMAIN f \ {k} |-> f[x]]

\* the hook right after the first render and its effects
InitHook ==
  [ channelId       |-> "general",
    isEnabled       |-> FALSE,
    isConnected     |-> FALSE,
    isMuted         |-> FALSE,
    isDeafened      |-> FALSE,
    voiceUsers      |-> EmptyMap,
    connectionError |-> NULL,
    localStream     |-> NoStream,
    leakedStreams   |-> 0,
    loops           |-> 0,
    frameRefLive    |-> FALSE,
    peers           |-> EmptyMap,
    orphans         |-> EmptyBag,
    closing         |-> EmptyBag,
    channelRef      |-> NoChannel,
    leakedChannels  |-> 0,
    pstate          |-> {},
    remoteAudios    |-> EmptyMap,
    attempts        |-> NoAttempts,
    sent            |-> {},
    signals         |-> {},
    relayDown       |-> FALSE ]

InFlight(s) == s.attempts.media + s.attempts.subscribe + s.attempts.track

Detached(s) == BagCardinality(s.orphans) + BagCardinality(s.closing)

(***************************************************************************)
(* Peer connection objects.  peersRef maps a nickname to the object that   *)
(* createPeer stored last; an object that is alive but no longer stored    *)
(* is an orphan, an object that was destroyed and has not emitted 'close'  *)
(* yet is closing.  An emitter names the object a library callback         *)
(* belongs to.                                                             *)
(***************************************************************************)
Orphan(k, init) == [target |-> k, initiator |-> init]

LiveEmitters(s) ==
  { [place |-> "map", target |-> k, initiator |-> s.peers[k].initiator] :
      k \in DOMAIN s.peers }
  \cup { [place |-> "orphan", target |-> o.target, initiator |-> o.initiator] :
      o \in BagToSet(s.orphans) }

ClosingEmitters(s) ==
  { [place |-> "closing", target |-> k, initiator |-> FALSE] :
      k \in BagToSet(s.closing) }

\* the emitting object leaves the container it is kept in (an object stored
\* in peersRef leaves it when its own handler deletes the entry)
Retire(s, e) ==
  CASE e.place = "orphan" ->
         [s EXCEPT !.orphans = @ (-) SetToBag({Orphan(e.target, e.initiator)})]
    [] e.place = "closing" ->
         [s EXCEPT !.closing = @ (-) SetToBag({e.target})]
    [] OTHER -> s

\* peersRef.current.delete(k), run by a callback of the object `e`: the
\* entry goes; the object it held stays alive unless it is `e` itself
peersDelete(s, k, e) ==
  IF k \notin DOMAIN s.peers THEN s
  ELSE [s EXCEPT
          !.peers = Remove(@, k),
          !.orphans = IF e.place = "map" THEN @
                      ELSE @ (+) SetToBag({Orphan(k, s.peers[k].initiator)})]

(***************************************************************************)
(* Handlers of the hook, as operators on a hook record.                    *)
(***************************************************************************)
removeRemoteAudio(s, userId) ==
  IF userId \in DOMAIN s.remoteAudios
  THEN [s EXCEPT !.remoteAudios = Remove(@, userId)]
  ELSE s

\* isDeafened as playRemoteAudio sees it when it is called from createPeer's
\* 'stream' callback.  createPeer is memoized on [nickname] only, so it keeps
\* the playRemoteAudio of the render that created it, and that one closes
\* over the isDeafened of that render: the initial useState(false).
createPeerIsDeafened == FALSE

playRemoteAudio(s, userId, isDeafened) ==
  LET s1 == removeRemoteAudio(s, userId)
  IN  [s1 EXCEPT !.remoteAudios = Put(@, userId, IF isDeafened THEN 0 ELSE 1)]

\* new Peer({initiator, ...}); peersRef.current.set(targetUser, peer)
createPeer(s, targetUser, initiator) ==
  [s EXCEPT
     !.peers = Put(@, targetUser, [initiator |-> initiator]),
     !.orphans = IF targetUser \in DOMAIN s.peers
                 THEN @ (+) SetToBag({Orphan(targetUser,
                                             s.peers[targetUser].initiator)})
                 ELSE @]

\* peer.on('signal'): the connection toward targetUser has produced its
\* session description, an offer if it is the initiator, an answer if not
onPeerSignal(s, nickname, targetUser, kind) ==
  IF s.channelRef.open
  THEN [s EXCEPT !.signals =
          @ \cup {[target |-> targetUser, from |-> nickname, kind |-> kind]}]
  ELSE s

\* peer.on('stream')
onPeerStream(s, e) == playRemoteAudio(s, e.target, createPeerIsDeafened)

\* mutation: the error handler also reports the failure on the session
onPeerErrorSurfaced(s, e) ==
  [peersDelete(s, e.target, e) EXCEPT !.connectionError = ConnectFailed]

\* peer.on('error')
onPeerError(s, e) == peersDelete(s, e.target, e)

\* peer.on('close')
onPeerClose(s, e) == removeRemoteAudio(peersDelete(s, e.target, e), e.target)

\* users.forEach of the presence sync handler
RECURSIVE syncConnect(_, _, _)
syncConnect(s, nickname, users) ==
  IF users = {} THEN s
  ELSE LET user == CHOOSE u \in users : TRUE
           s1 == IF user # nickname /\ user \notin DOMAIN s.peers
                    /\ LexLess(nickname, user)
                 THEN createPeer(s, user, TRUE)
                 ELSE s
       IN  syncConnect(s1, nickname, users \ {user})

\* channel.on('presence', {event: 'sync'})
onPresenceSync(s, nickname) ==
  LET users == s.pstate
      s1 == [s EXCEPT !.voiceUsers = [u \in users |-> DefaultUser]]
  IN  syncConnect(s1, nickname, users)

\* mutation: the join handler without the comparison of the nicknames
onPresenceJoinUnordered(s, nickname, key) ==
  IF key # nickname /\ key \notin DOMAIN s.peers
  THEN createPeer(s, key, TRUE)
  ELSE s

\* channel.on('presence', {event: 'join'})
onPresenceJoin(s, nickname, key) ==
  IF key # nickname /\ key \notin DOMAIN s.peers /\ LexLess(nickname, key)
  THEN createPeer(s, key, TRUE)
  ELSE s

\* mutation: the roster filter of the leave handler inverted
onPresenceLeaveInverted(s, key) ==
  LET s1 == IF key \in DOMAIN s.peers
            THEN [s EXCEPT !.peers = Remove(@, key),
                           !.closing = @ (+) SetToBag({key})]
            ELSE s
      s2 == removeRemoteAudio(s1, key)
  IN  [s2 EXCEPT !.voiceUsers = [u \in DOMAIN @ \cap {key} |-> @[u]]]

\* channel.on('presence', {event: 'leave'})
onPresenceLeave(s, key) ==
  LET s1 == IF key \in DOMAIN s.peers
            THEN [s EXCEPT !.peers = Remove(@, key),
                           !.closing = @ (+) SetToBag({key})]
            ELSE s
      s2 == removeRemoteAudio(s1, key)
  IN  [s2 EXCEPT !.voiceUsers = Remove(@, key)]

\* channel.on('broadcast', {event: 'voice_activity'})
onVoiceActivity(s, nickname, userId, sample) ==
  IF userId # nickname /\ userId \in DOMAIN s.voiceUsers
  THEN [s EXCEPT !.voiceUsers[userId] = sample]
  ELSE s

\* mutation: an envelope creates no connection
handleWebRTCSignalKnownOnly(s, from) == s

\* mutation: a connection is created for every envelope
handleWebRTCSignalAlways(s, from) == createPeer(s, from, FALSE)

handleWebRTCSignal(s, from) ==
  IF from \in DOMAIN s.peers THEN s ELSE createPeer(s, from, FALSE)

\* channel.on('broadcast', {event: 'webrtc_signal'})
\* mutation: the handler does not compare the target with the nickname
onWebRTCSignalUnfiltered(s, nickname, from, target) ==
  handleWebRTCSignal(s, from)

onWebRTCSignal(s, nickname, from, target) ==
  IF target = nickname THEN handleWebRTCSignal(s, from) ELSE s

(***************************************************************************)
(* Session lifecycle.                                                      *)
(***************************************************************************)
\* peersRef.current.forEach((peer, userId) => { peer.destroy();
\* removeRemoteAudio(userId) }).  destroy() queues the 'close' emission as a
\* microtask; when it runs, disconnectFromVoice has cleared peersRef and
\* removed the audio of every key, so the 'close' handlers find nothing.
RECURSIVE destroyAll(_, _)
destroyAll(s, keys) ==
  IF keys = {} THEN s
  ELSE LET userId == CHOOSE k \in keys : TRUE
       IN  destroyAll(removeRemoteAudio(s, userId), keys \ {userId})

disconnectFromVoice(s) ==
  LET s1 == [s EXCEPT
               !.loops = IF s.frameRefLive THEN @ - 1 ELSE @,
               !.frameRefLive = FALSE,
               !.localStream = NoStream]
      s2 == destroyAll(s1, DOMAIN s1.peers)
  IN  [s2 EXCEPT
         !.peers = EmptyMap,
         !.channelRef = NoChannel,
         !.pstate = {},
         !.isConnected = FALSE,
         !.voiceUsers = EmptyMap,
         !.connectionError = NULL]

\* connectToVoice up to its first await; isEnabled and isConnected are the
\* values of the render whose closure is called
connectToVoice(s, isEnabled, isConnected) ==
  IF ~isEnabled \/ isConnected THEN s
  ELSE [s EXCEPT !.connectionError = NULL, !.attempts.media = @ + 1]

\* getUserMedia resolves: the rest of initializeAudio, then connectToVoice up
\* to `await channelRef.current.subscribe()`
mediaGranted(s) ==
  [s EXCEPT
     !.localStream = [held |-> TRUE, enabled |-> TRUE],
     !.leakedStreams = IF s.localStream.held THEN @ + 1 ELSE @,
     !.loops = @ + 1,
     !.frameRefLive = TRUE,
     !.channelRef = [open |-> TRUE, tracked |-> FALSE, id |-> s.channelId],
     !.leakedChannels = IF s.channelRef.open THEN @ + 1 ELSE @,
     !.pstate = {},
     !.attempts = [@ EXCEPT !.media = @ - 1, !.subscribe = @ + 1]]

\* mutation: the catch block only logs
connectCatchSilent(s) == s

\* mutation: the catch block starts connectToVoice again
connectCatchRetry(s) ==
  [s EXCEPT !.connectionError = ConnectFailed, !.attempts.media = @ + 1]

\* the catch block of connectToVoice
connectCatch(s) == [s EXCEPT !.connectionError = ConnectFailed]

\* getUserMedia rejects: the catch block of initializeAudio rethrows into
\* the catch block of connectToVoice
mediaDenied(s) ==
  LET s1 == [s EXCEPT !.connectionError = MicrophoneDenied,
                      !.attempts.media = @ - 1]
  IN  connectCatch(s1)

\* subscribe() resolved: `await channelRef.current.track(...)` reads the ref
\* again; a null ref raises a TypeError that the catch block handles
subscribeResolved(s) ==
  IF s.channelRef.open
  THEN [s EXCEPT !.channelRef.tracked = TRUE,
                 !.attempts = [@ EXCEPT !.subscribe = @ - 1, !.track = @ + 1]]
  ELSE connectCatch([s EXCEPT !.attempts.subscribe = @ - 1])

subscribeFailed(s) == connectCatch([s EXCEPT !.attempts.subscribe = @ - 1])

trackResolved(s) ==
  [s EXCEPT !.isConnected = TRUE, !.attempts.track = @ - 1]

trackFailed(s) == connectCatch([s EXCEPT !.attempts.track = @ - 1])

\* The transport of the relay fails.  subscribe() is called without a status
\* callback and the channel has no 'system' handler: no code of the hook
\* runs, and the client library reconnects by itself.
transportFailed(s) == [s EXCEPT !.relayDown = TRUE]

transportRestored(s) == [s EXCEPT !.relayDown = FALSE]

\* the connection effect of useVoiceChat, run because isEnabled changed: the
\* cleanup of the previous run, then the body with the closures of the new
\* render (whose isConnected is the state before the cleanup)
connectionEffect(s, isEnabled) ==
  LET s0 == [s EXCEPT !.isEnabled = isEnabled]
      s1 == disconnectFromVoice(s0)
  IN  IF isEnabled
      THEN connectToVoice(s1, isEnabled, s.isConnected)
      ELSE disconnectFromVoice(s1)

\* isMuted as detectVoice sees it.  initializeAudio is memoized on [], so it
\* keeps the startVoiceActivityDetection of the first render, and the loop
\* that one starts closes over the isMuted of that render: useState(false).
detectVoiceIsMuted == FALSE

\* channelRef.current.send({type: 'broadcast', event: 'voice_activity', ...})
send(s, payload) == [s EXCEPT !.sent = @ \cup {payload}]

\* mutation: isSpeaking decided by the threshold of the broadcast
detectVoiceLoose(s, nickname, total) ==
  LET level == normalizedLevel(total)
  IN  IF s.channelRef.open /\ Exceeds(level, BroadcastThreshold)
      THEN send(s, [userId     |-> nickname,
                    isSpeaking |-> Exceeds(level, BroadcastThreshold),
                    audioLevel |-> level,
                    isMuted    |-> detectVoiceIsMuted])
      ELSE s

\* mutation: every frame is broadcast
detectVoiceUngated(s, nickname, total) ==
  LET level == normalizedLevel(total)
  IN  IF s.channelRef.open
      THEN send(s, [userId     |-> nickname,
                    isSpeaking |-> Exceeds(level, SpeakingThreshold),
                    audioLevel |-> level,
                    isMuted    |-> detectVoiceIsMuted])
      ELSE s

\* one animation frame of a sampling loop, the analyser data summing to total
detectVoice(s, nickname, total) ==
  LET level == normalizedLevel(total)
  IN  IF s.channelRef.open /\ Exceeds(level, BroadcastThreshold)
      THEN send(s, [userId     |-> nickname,
                    isSpeaking |-> Exceeds(level, SpeakingThreshold),
                    audioLevel |-> level,
                    isMuted    |-> detectVoiceIsMuted])
      ELSE s

\* the payload toggleMute broadcasts
muteSample(s, nickname) ==
  [userId |-> nickname, isMuted |-> ~s.isMuted, isSpeaking |-> FALSE,
   audioLevel |-> 0]

\* mutation: muting by stopping the outbound stream of every connection
toggleMuteTearing(s, nickname) ==
  IF s.localStream.held
  THEN LET s1 == [s EXCEPT !.localStream.enabled = s.isMuted,
                           !.isMuted = ~s.isMuted]
           s2 == IF s.isMuted THEN s1
                 ELSE [destroyAll(s1, DOMAIN s1.peers) EXCEPT
                         !.peers = EmptyMap]
       IN  IF s.channelRef.open THEN send(s2, muteSample(s, nickname)) ELSE s2
  ELSE s

toggleMute(s, nickname) ==
  IF s.localStream.held
  THEN LET s1 == [s EXCEPT !.localStream.enabled = s.isMuted,
                           !.isMuted = ~s.isMuted]
       IN  IF s.channelRef.open THEN send(s1, muteSample(s, nickname)) ELSE s1
  ELSE s

\* mutation: the volumes follow the flag as it was before the toggle
toggleDeafenStale(s) ==
  [s EXCEPT
     !.isDeafened = ~s.isDeafened,
     !.remoteAudios = [k \in DOMAIN @ |-> IF s.isDeafened THEN 0 ELSE 1]]

\* mutation: deafening also silences the outbound track
toggleDeafenMuting(s) ==
  LET newDeafenState == ~s.isDeafened
  IN  [s EXCEPT
         !.isDeafened = newDeafenState,
         !.localStream.enabled = @ /\ ~newDeafenState,
         !.remoteAudios = [k \in DOMAIN @ |->
                             IF newDeafenState THEN 0 ELSE 1]]

toggleDeafen(s) ==
  LET newDeafenState == ~s.isDeafened
  IN  [s EXCEPT
         !.isDeafened = newDeafenState,
         !.remoteAudios = [k \in DOMAIN @ |->
                             IF newDeafenState THEN 0 ELSE 1]]

\* what VoiceControls shows (getVoiceStatusText); an attempt that is
\* suspended at an await is the Connecting state of the session
SessionState(s) ==
  IF s.connectionError # NULL THEN "Error"
  ELSE IF s.isConnected THEN "Connected"
  ELSE IF InFlight(s) > 0 THEN "Connecting"
  ELSE "Disconnected"

(***************************************************************************)
(* The state machine.  A step is one task of the event loop of one hook.   *)
(***************************************************************************)
Step(c, s) == hooks' = [hooks EXCEPT ![c] = s] /\ UNCHANGED <<mounted, members>>

\* no 'close' emission is queued: a new task may start
Quiet(s) == s.closing = EmptyBag

\* some channel of this hook is subscribed and delivers events
ChannelLive(s) == s.channelRef.open \/ s.leakedChannels > 0

\* one hook is mounted; `members` are the nicknames that take part in the
\* voice channel during the run: the local one and the remote ones
InitHooks ==
  /\ hooks = [c \in Ids |-> InitHook]
  /\ mounted \in { {c} : c \in Ids }

\* the local participant and one remote participant; the local one is the
\* smaller or the larger of the two nicknames
Init ==
  /\ InitHooks
  /\ members = {"alice", "bob"}
  /\ mounted \subseteq members

\* the local participant alone
InitSolo == InitHooks /\ members = mounted

\* three participants; the local one has a smaller and a larger peer
InitMesh == InitHooks /\ mounted = {"bob"} /\ members = Ids

\* two participants, the hook of each of them followed
InitDuo ==
  /\ hooks = [c \in Ids |-> InitHook]
  /\ mounted = {"alice", "bob"}
  /\ members = mounted

\* VoiceControls: JOIN VOICE (handleToggleVoice sets isVoiceEnabled)
Enable(c) ==
  /\ ~hooks[c].isEnabled
  /\ Quiet(hooks[c])
  /\ InFlight(hooks[c]) < MaxAttempts
  /\ Step(c, connectionEffect(hooks[c], TRUE))

\* VoiceControls: DISCONNECT
Disable(c) ==
  /\ hooks[c].isEnabled
  /\ Quiet(hooks[c])
  /\ Step(c, connectionEffect(hooks[c], FALSE))

\* The channelId prop changes: the connection effect runs again, with the
\* isEnabled of the render.  The prop changes while no connectToVoice is
\* suspended, so that every attempt belongs to the channelId of the hook.
SwitchChannel(c, id) ==
  /\ id # hooks[c].channelId
  /\ Quiet(hooks[c])
  /\ InFlight(hooks[c]) = 0
  /\ Step(c, connectionEffect([hooks[c] EXCEPT !.channelId = id],
                              hooks[c].isEnabled))

\* connectToVoice as returned by the hook, called with the current render
CallConnectToVoice(c) ==
  /\ hooks[c].isEnabled
  /\ Quiet(hooks[c])
  /\ hooks[c].isConnected \/ InFlight(hooks[c]) < MaxAttempts
  /\ Step(c, connectToVoice(hooks[c], hooks[c].isEnabled,
                            hooks[c].isConnected))

\* disconnectFromVoice as returned by the hook
CallDisconnectFromVoice(c) ==
  /\ Quiet(hooks[c])
  /\ Step(c, disconnectFromVoice(hooks[c]))

ToggleMute(c) ==
  /\ Quiet(hooks[c])
  /\ Cardinality(toggleMute(hooks[c], c).sent) <= MaxSent
  /\ Step(c, toggleMute(hooks[c], c))

\* requestAnimationFrame runs detectVoice of a sampling loop
DetectVoice(c, total) ==
  /\ hooks[c].loops > 0
  /\ Quiet(hooks[c])
  /\ Cardinality(detectVoice(hooks[c], c, total).sent) <= MaxSent
  /\ Step(c, detectVoice(hooks[c], c, total))

\* The relay delivers a broadcast of hook c to every subscribed channel,
\* the sender's included (broadcast: {self: true}).
Deliver(c, m) ==
  /\ m \in hooks[c].sent
  /\ \A d \in mounted : Quiet(hooks[d])
  /\ hooks' = [d \in Ids |->
       IF d \notin mounted THEN hooks[d]
       ELSE LET s0 == IF d = c THEN [hooks[d] EXCEPT !.sent = @ \ {m}]
                      ELSE hooks[d]
            IN  IF ChannelLive(s0)
                THEN onVoiceActivity(s0, d, m.userId,
                       [isMuted |-> m.isMuted, isSpeaking |-> m.isSpeaking,
                        audioLevel |-> m.audioLevel])
                ELSE s0]
  /\ UNCHANGED <<mounted, members>>

ToggleDeafen(c) ==
  /\ Quiet(hooks[c])
  /\ Step(c, toggleDeafen(hooks[c]))

MediaGranted(c) ==
  /\ hooks[c].attempts.media > 0
  /\ Quiet(hooks[c])
  /\ hooks[c].localStream.held => hooks[c].leakedStreams < MaxLeaked
  /\ Step(c, mediaGranted(hooks[c]))

MediaDenied(c) ==
  /\ hooks[c].attempts.media > 0
  /\ Quiet(hooks[c])
  /\ Step(c, mediaDenied(hooks[c]))

SubscribeResolved(c) ==
  /\ hooks[c].attempts.subscribe > 0
  /\ Quiet(hooks[c])
  /\ Step(c, subscribeResolved(hooks[c]))

SubscribeFailed(c) ==
  /\ hooks[c].attempts.subscribe > 0
  /\ Quiet(hooks[c])
  /\ Step(c, subscribeFailed(hooks[c]))

TrackResolved(c) ==
  /\ hooks[c].attempts.track > 0
  /\ Quiet(hooks[c])
  /\ Step(c, trackResolved(hooks[c]))

TrackFailed(c) ==
  /\ hooks[c].attempts.track > 0
  /\ Quiet(hooks[c])
  /\ Step(c, trackFailed(hooks[c]))

\* The relay dispatches a presence message as one task: the join callbacks,
\* the leave callbacks, then the sync callback.  The sync callback reads
\* channelRef.current.presenceState(); with a null ref it raises at once.
PresenceSync(c) ==
  /\ hooks[c].channelRef.open
  /\ Step(c, onPresenceSync(hooks[c], c))

PresenceJoin(c, key) ==
  /\ ChannelLive(hooks[c])
  /\ Quiet(hooks[c])
  /\ key \notin hooks[c].pstate
  /\ Step(c, onPresenceJoin([hooks[c] EXCEPT !.pstate = @ \cup {key}], c, key))

\* The leave callback runs when a presence of `key` ends; the key stays in
\* presenceState() while it has another presence (`remains`).
PresenceLeave(c, key, remains) ==
  /\ ChannelLive(hooks[c])
  /\ key \in hooks[c].pstate
  /\ key \in DOMAIN hooks[c].peers => Detached(hooks[c]) < MaxDetached
  /\ Step(c, onPresenceLeave(
               [hooks[c] EXCEPT !.pstate = IF remains THEN @ ELSE @ \ {key}],
               key))

VoiceActivity(c, userId, sample) ==
  /\ ChannelLive(hooks[c])
  /\ Quiet(hooks[c])
  /\ Step(c, onVoiceActivity(hooks[c], c, userId, sample))

WebRTCSignal(c, from, target) ==
  /\ ChannelLive(hooks[c])
  /\ Quiet(hooks[c])
  /\ from # target
  /\ Step(c, onWebRTCSignal(hooks[c], c, from, target))

\* the initiator has gathered its offer
PeerSignal(c, e) ==
  /\ e \in LiveEmitters(hooks[c])
  /\ e.initiator
  /\ Quiet(hooks[c])
  /\ Cardinality(onPeerSignal(hooks[c], c, e.target, "offer").signals)
       <= MaxSent
  /\ Step(c, onPeerSignal(hooks[c], c, e.target, "offer"))

\* what the delivery of the envelope m does to the hook s of d: the
\* webrtc_signal handler, and, when the connection that got an offer is a
\* non-initiator, its answer
signalDelivered(s, d, m) ==
  LET s1 == onWebRTCSignal(s, d, m.from, m.target)
  IN  IF /\ m.target = d /\ m.kind = "offer"
         /\ m.from \in DOMAIN s1.peers /\ ~s1.peers[m.from].initiator
      THEN onPeerSignal(s1, d, m.from, "answer")
      ELSE s1

\* The relay delivers a webrtc_signal envelope of hook c to every subscribed
\* channel, the sender's included (broadcast: {self: true}).
DeliverSignal(c, m) ==
  /\ m \in hooks[c].signals
  /\ \A d \in mounted : Quiet(hooks[d])
  /\ LET after == [d \in Ids |->
         IF d \notin mounted THEN hooks[d]
         ELSE LET s0 == IF d = c THEN [hooks[d] EXCEPT !.signals = @ \ {m}]
                        ELSE hooks[d]
              IN  IF ChannelLive(s0) THEN signalDelivered(s0, d, m) ELSE s0]
     IN  /\ \A d \in mounted : Cardinality(after[d].signals) <= MaxSent
         /\ hooks' = after
  /\ UNCHANGED <<mounted, members>>

\* The presence of `key`, who has called track(), reaches the channel of c:
\* the join callback.
Announce(c, key) ==
  /\ key \in mounted
  /\ hooks[key].channelRef.tracked
  /\ PresenceJoin(c, key)

\* the relay connection of a connected session drops
TransportFailure(c) ==
  /\ hooks[c].isConnected /\ hooks[c].channelRef.open
  /\ ~hooks[c].relayDown
  /\ Quiet(hooks[c])
  /\ Step(c, transportFailed(hooks[c]))

TransportRestored(c) ==
  /\ hooks[c].relayDown
  /\ Step(c, transportRestored(hooks[c]))

PeerStream(c, e) ==
  /\ e \in LiveEmitters(hooks[c])
  /\ Quiet(hooks[c])
  /\ Step(c, onPeerStream(hooks[c], e))

\* a failure of the connection: 'error', then 'close', in one microtask
PeerError(c, e) ==
  /\ e \in LiveEmitters(hooks[c])
  /\ Quiet(hooks[c])
  /\ Step(c, onPeerClose(onPeerError(Retire(hooks[c], e), e), e))

\* 'close' of a connection the remote side ended
PeerClose(c, e) ==
  /\ e \in LiveEmitters(hooks[c])
  /\ Quiet(hooks[c])
  /\ Step(c, onPeerClose(Retire(hooks[c], e), e))

\* 'close' of a connection that destroy() ended, in the queued microtask
PeerDestroyedClose(c, e) ==
  /\ e \in ClosingEmitters(hooks[c])
  /\ Step(c, onPeerClose(Retire(hooks[c], e), e))

Emitters ==
  [place : {"map", "orphan", "closing"}, target : Ids, initiator : BOOLEAN]

\* a session with one remote participant: every entry point of the hook
\* lifecycle, every relay and peer connection event
Next ==
  \/ \E c \in mounted : Enable(c)
  \/ \E c \in mounted : Disable(c)
  \/ \E c \in mounted : CallConnectToVoice(c)
  \/ \E c \in mounted : CallDisconnectFromVoice(c)
  \/ \E c \in mounted : MediaGranted(c)
  \/ \E c \in mounted : MediaDenied(c)
  \/ \E c \in mounted : SubscribeResolved(c)
  \/ \E c \in mounted : SubscribeFailed(c)
  \/ \E c \in mounted : TrackResolved(c)
  \/ \E c \in mounted : TrackFailed(c)
  \/ \E c \in mounted : PresenceSync(c)
  \/ \E c \in mounted, key \in members : PresenceJoin(c, key)
  \/ \E c \in mounted, key \in members, remains \in BOOLEAN :
       PresenceLeave(c, key, remains)
  \/ \E c \in mounted, from \in members, target \in members :
       WebRTCSignal(c, from, target)
  \/ \E c \in mounted, e \in Emitters : PeerStream(c, e)
  \/ \E c \in mounted, e \in Emitters : PeerError(c, e)
  \/ \E c \in mounted, e \in Emitters : PeerClose(c, e)
  \/ \E c \in mounted, e \in Emitters : PeerDestroyedClose(c, e)

Spec == Init /\ [][Next]_vars

\* the local controls over the whole lifecycle, nobody else in the channel
NextControls ==
  \/ \E c \in mounted : Enable(c)
  \/ \E c \in mounted : Disable(c)
  \/ \E c \in mounted : CallConnectToVoice(c)
  \/ \E c \in mounted : CallDisconnectFromVoice(c)
  \/ \E c \in mounted : MediaGranted(c)
  \/ \E c \in mounted : MediaDenied(c)
  \/ \E c \in mounted : SubscribeResolved(c)
  \/ \E c \in mounted : SubscribeFailed(c)
  \/ \E c \in mounted : TrackResolved(c)
  \/ \E c \in mounted : TrackFailed(c)
  \/ \E c \in mounted : ToggleMute(c)
  \/ \E c \in mounted : ToggleDeafen(c)
  \/ \E c \in mounted : \E m \in hooks[c].sent : Deliver(c, m)

SpecControls == InitSolo /\ [][NextControls]_vars

\* a session that is enabled once, with two remote participants
NextMesh ==
  \/ \E c \in mounted : Enable(c)
  \/ \E c \in mounted : MediaGranted(c)
  \/ \E c \in mounted : SubscribeResolved(c)
  \/ \E c \in mounted : TrackResolved(c)
  \/ \E c \in mounted : PresenceSync(c)
  \/ \E c \in mounted, key \in members : PresenceJoin(c, key)
  \/ \E c \in mounted, key \in members, remains \in BOOLEAN :
       PresenceLeave(c, key, remains)
  \/ \E c \in mounted, from \in members, target \in members :
       WebRTCSignal(c, from, target)
  \/ \E c \in mounted, userId \in members, sample \in ActivitySamples :
       VoiceActivity(c, userId, sample)
  \/ \E c \in mounted, e \in Emitters : PeerStream(c, e)
  \/ \E c \in mounted, e \in Emitters : PeerError(c, e)
  \/ \E c \in mounted, e \in Emitters : PeerClose(c, e)
  \/ \E c \in mounted, e \in Emitters : PeerDestroyedClose(c, e)
  \/ \E c \in mounted : ToggleDeafen(c)

SpecMesh == InitMesh /\ [][NextMesh]_vars

\* two sessions that exchange activity samples through the relay: the
\* speaker goes through the whole lifecycle and uses the controls, the
\* listener joins once and follows the presence of the channel
Speaker == "alice"
Listener == "bob"

NextActivity ==
  \/ \E c \in mounted : Enable(c)
  \/ \E c \in mounted \cap {Speaker} : Disable(c)
  \/ \E c \in mounted : MediaGranted(c)
  \/ \E c \in mounted \cap {Speaker} : SubscribeResolved(c)
  \/ \E c \in mounted \cap {Speaker} : TrackResolved(c)
  \/ \E c \in mounted \cap {Listener} : PresenceSync(c)
  \/ \E c \in mounted \cap {Listener}, key \in members : PresenceJoin(c, key)
  \/ \E c \in mounted \cap {Speaker} : ToggleMute(c)
  \/ \E c \in mounted \cap {Speaker}, total \in ByteSums :
       DetectVoice(c, total)
  \/ \E c \in mounted : \E m \in hooks[c].sent : Deliver(c, m)

SpecActivity == InitDuo /\ [][NextActivity]_vars

\* a session that is enabled once, with two remote participants whose audio
\* arrives, and the two audio controls
NextMute ==
  \/ \E c \in mounted : Enable(c)
  \/ \E c \in mounted : MediaGranted(c)
  \/ \E c \in mounted : SubscribeResolved(c)
  \/ \E c \in mounted : TrackResolved(c)
  \/ \E c \in mounted : PresenceSync(c)
  \/ \E c \in mounted, key \in members : PresenceJoin(c, key)
  \/ \E c \in mounted, from \in members, target \in members :
       WebRTCSignal(c, from, target)
  \/ \E c \in mounted, e \in Emitters : PeerStream(c, e)
  \/ \E c \in mounted : ToggleMute(c)
  \/ \E c \in mounted : ToggleDeafen(c)

SpecMute == InitMesh /\ [][NextMute]_vars

\* Every participant enables once and stays; presence is what the
\* participants have announced; the relay delivers every envelope and every
\* promise resolves.
NextFormation ==
  \/ \E c \in mounted : Enable(c)
  \/ \E c \in mounted : MediaGranted(c)
  \/ \E c \in mounted : SubscribeResolved(c)
  \/ \E c \in mounted : TrackResolved(c)
  \/ \E c \in mounted, key \in members : Announce(c, key)
  \/ \E c \in mounted, e \in Emitters : PeerSignal(c, e)
  \/ \E c \in mounted : \E m \in hooks[c].signals : DeliverSignal(c, m)

SpecFormation ==
  /\ InitDuo
  /\ [][NextFormation]_vars
  /\ \A c \in Ids :
       /\ WF_vars(MediaGranted(c))
       /\ WF_vars(SubscribeResolved(c))
       /\ WF_vars(TrackResolved(c))
       /\ \A key \in Ids : WF_vars(Announce(c, key))
       /\ \A e \in Emitters : WF_vars(PeerSignal(c, e))
       /\ \A m \in [target : Ids, from : Ids, kind : {"offer", "answer"}] :
            WF_vars(DeliverSignal(c, m))

\* the lifecycle of a session whose relay connection may drop
NextTransport ==
  \/ \E c \in mounted : Enable(c)
  \/ \E c \in mounted : Disable(c)
  \/ \E c \in mounted : MediaGranted(c)
  \/ \E c \in mounted : MediaDenied(c)
  \/ \E c \in mounted : SubscribeResolved(c)
  \/ \E c \in mounted : SubscribeFailed(c)
  \/ \E c \in mounted : TrackResolved(c)
  \/ \E c \in mounted : TrackFailed(c)
  \/ \E c \in mounted : TransportFailure(c)
  \/ \E c \in mounted : TransportRestored(c)

SpecTransport == InitSolo /\ [][NextTransport]_vars

\* two sessions that negotiate their peer connection through the relay
NextNegotiation ==
  \/ \E c \in mounted : Enable(c)
  \/ \E c \in mounted : MediaGranted(c)
  \/ \E c \in mounted : SubscribeResolved(c)
  \/ \E c \in mounted, key \in members : PresenceJoin(c, key)
  \/ \E c \in mounted, e \in Emitters : PeerSignal(c, e)
  \/ \E c \in mounted : \E m \in hooks[c].signals : DeliverSignal(c, m)
  \/ \E c \in mounted, e \in Emitters : PeerError(c, e)

SpecNegotiation == InitDuo /\ [][NextNegotiation]_vars

\* a session that is enabled once and whose channelId prop changes; every
\* promise of the attempt is settled in the end, and resolves
NextSwitch ==
  \/ \E c \in mounted : Enable(c)
  \/ \E c \in mounted, id \in ChannelIds : SwitchChannel(c, id)
  \/ \E c \in mounted : MediaGranted(c)
  \/ \E c \in mounted : SubscribeResolved(c)
  \/ \E c \in mounted : TrackResolved(c)
  \/ \E c \in mounted : PresenceSync(c)
  \/ \E c \in mounted, key \in members : PresenceJoin(c, key)
  \/ \E c \in mounted, e \in Emitters : PeerStream(c, e)

SpecSwitch ==
  /\ Init
  /\ [][NextSwitch]_vars
  /\ \A c \in Ids : /\ WF_vars(MediaGranted(c))
                    /\ WF_vars(SubscribeResolved(c))
                    /\ WF_vars(TrackResolved(c))

(***************************************************************************)
(* Properties.                                                             *)
(***************************************************************************)
\* the lexicographic order of the nicknames, written out
Smaller == { <<"alice", "bob">>, <<"alice", "carol">>, <<"bob", "carol">> }

\* C1: initiator election.  In every reachable state, a peer connection
\* that a hook holds in the initiator role (stored in peersRef or not) goes
\* from the lexicographically smaller nickname to the larger one: the larger
\* one never initiates toward the smaller one.
C1_InitiatorElection ==
  \A c \in mounted : \A e \in LiveEmitters(hooks[c]) :
    e.initiator => <<c, e.target>> \in Smaller

\* the larger nickname holds a link toward the smaller one, who is present
C1_Witness ==
  \E c \in mounted : \E k \in DOMAIN hooks[c].peers :
    /\ <<k, c>> \in Smaller
    /\ k \in hooks[c].pstate
    /\ ~hooks[c].peers[k].initiator

\* the PeerLinks and the remote audio outputs of everybody but `p` are the
\* same in the hook records s and t
OthersUntouched(s, t, p) ==
  /\ DOMAIN t.peers \ {p} = DOMAIN s.peers \ {p}
  /\ \A k \in DOMAIN s.peers \ {p} : t.peers[k] = s.peers[k]
  /\ DOMAIN t.remoteAudios \ {p} = DOMAIN s.remoteAudios \ {p}
  /\ \A k \in DOMAIN s.remoteAudios \ {p} : t.remoteAudios[k] = s.remoteAudios[k]

\* C2 (as claimed): disconnectFromVoice, from any state, leaves no PeerLink,
\* no remote audio output, no media stream of this hook still capturing, no
\* channel of this hook still subscribed, isConnected false and no error
\* string; a second call in succession changes nothing.
Disabled(s) ==
  /\ DOMAIN s.peers = {}
  /\ DOMAIN s.remoteAudios = {}
  /\ ~s.localStream.held /\ s.leakedStreams = 0
  /\ ~s.channelRef.open /\ s.leakedChannels = 0
  /\ ~s.isConnected
  /\ s.connectionError = NULL

C2_DisableLeavesNothing ==
  [][\A c \in mounted :
       (Disable(c) \/ CallDisconnectFromVoice(c)) =>
         /\ Disabled(hooks'[c])
         /\ disconnectFromVoice(hooks'[c]) = hooks'[c]]_vars

\* C3 (as claimed): when getUserMedia rejects, the session has an error
\* string and is not connected, the attempt has created no channel and
\* announced no presence, and no PeerLink exists.
C3_CaptureFailure ==
  [][\A c \in mounted :
       MediaDenied(c) =>
         /\ hooks'[c].connectionError # NULL
         /\ ~hooks'[c].isConnected
         /\ hooks'[c].channelRef = hooks[c].channelRef
         /\ hooks'[c].leakedChannels = hooks[c].leakedChannels
         /\ DOMAIN hooks'[c].peers = {}]_vars

\* C4 (as claimed): connectToVoice called while the session is Connecting
\* or Connected changes nothing: no second getUserMedia is started.
C4_EnableNoOp ==
  [][\A c \in mounted :
       (CallConnectToVoice(c)
          /\ SessionState(hooks[c]) \in {"Connecting", "Connected"}) =>
         hooks'[c] = hooks[c]]_vars

\* C5: a connection error of the peer connection toward P, while the
\* session is Connected, changes only the PeerLink and the audio output of
\* P: the PeerLinks and audio outputs of the others, isConnected, the error
\* string and every other field of the hook stay as they were, and P has
\* neither a PeerLink nor an audio output afterwards.
C5_PeerErrorContained ==
  [][\A c \in mounted, e \in Emitters :
       (PeerError(c, e) /\ SessionState(hooks[c]) = "Connected") =>
         /\ OthersUntouched(hooks[c], hooks'[c], e.target)
         /\ e.target \notin DOMAIN hooks'[c].peers
         /\ e.target \notin DOMAIN hooks'[c].remoteAudios
         /\ SessionState(hooks'[c]) = "Connected"
         /\ hooks'[c].connectionError = NULL
         /\ [hooks'[c] EXCEPT !.peers = hooks[c].peers,
                              !.orphans = hooks[c].orphans,
                              !.remoteAudios = hooks[c].remoteAudios]
              = hooks[c]]_vars

\* Connected; P is in the roster and the hook initiates toward P, so a sync
\* gave P a PeerLink; no connection of P is left, which only its error or
\* close brings about; the other peer still has its PeerLink and its audio
C5_Witness ==
  \E c \in mounted : \E p \in DOMAIN hooks[c].voiceUsers :
    /\ SessionState(hooks[c]) = "Connected"
    /\ <<c, p>> \in Smaller
    /\ p \notin DOMAIN hooks[c].peers
    /\ Detached(hooks[c]) = 0
    /\ \E k \in DOMAIN hooks[c].peers \ {p} : k \in DOMAIN hooks[c].remoteAudios

C7_ToggleDeafenVolumes ==
  [][\A c \in mounted :
       ToggleDeafen(c) =>
         /\ hooks'[c].isDeafened = ~hooks[c].isDeafened
         /\ DOMAIN hooks'[c].remoteAudios = DOMAIN hooks[c].remoteAudios
         /\ \A k \in DOMAIN hooks'[c].remoteAudios :
              hooks'[c].remoteAudios[k] =
                IF hooks'[c].isDeafened THEN 0 ELSE 1]_vars

\* deafened with two audio outputs attached, both silenced: only
\* toggleDeafen sets a volume to 0
C7_Witness ==
  \E c \in mounted :
    /\ hooks[c].isDeafened
    /\ Cardinality(DOMAIN hooks[c].remoteAudios) = 2
    /\ \A k \in DOMAIN hooks[c].remoteAudios : hooks[c].remoteAudios[k] = 0

\* C8 (as claimed): in every reachable state the volume of every attached
\* remote audio output is 0 iff isDeafened is true.
C8_VolumeFollowsDeafen ==
  \A c \in mounted : \A k \in DOMAIN hooks[c].remoteAudios :
    hooks[c].remoteAudios[k] = 0 <=> hooks[c].isDeafened

\* C9 (as claimed): in every reachable state without a local media stream,
\* toggleMute flips isMuted.
C9_MuteWithoutConnection ==
  \A c \in mounted :
    ~hooks[c].localStream.held =>
      toggleMute(hooks[c], c).isMuted = ~hooks[c].isMuted

\* C10 (as claimed): from every reachable state, toggleMute applied twice
\* gives back the isMuted and the enabled state of the outbound track.
C10_MuteRoundTrip ==
  \A c \in mounted :
    LET twice == toggleMute(toggleMute(hooks[c], c), c)
    IN  /\ twice.isMuted = hooks[c].isMuted
        /\ twice.localStream.enabled = hooks[c].localStream.enabled

\* C11: the speaking threshold is strict.  Every activity sample a hook has
\* handed to the relay, and every roster entry a receiver has taken from a
\* delivered sample, has isSpeaking true iff its level is greater than 0.15
\* (3/20); a level at or below 0.15 has isSpeaking false.
C11_SpeakingThreshold ==
  /\ \A c \in mounted : \A m \in hooks[c].sent :
       m.isSpeaking <=> 20 * m.audioLevel > 3 * LevelScale
  /\ \A d \in mounted : \A u \in DOMAIN hooks[d].voiceUsers :
       hooks[d].voiceUsers[u].isSpeaking
         <=> 20 * hooks[d].voiceUsers[u].audioLevel > 3 * LevelScale

\* the samples on the two sides of the threshold: the listener shows the
\* speaker with the smallest level above 0.15, speaking, while the sample
\* with the largest level below 0.15, not speaking, is on its way
C11_Witness ==
  /\ Speaker \in DOMAIN hooks[Listener].voiceUsers
  /\ hooks[Listener].voiceUsers[Speaker].audioLevel = 2458
  /\ hooks[Listener].voiceUsers[Speaker].isSpeaking
  /\ \E m \in hooks[Speaker].sent : m.audioLevel = 2457 /\ ~m.isSpeaking

\* C12: when subscribe() or track() of an attempt rejects, the session has
\* the error string of connectToVoice and shows Error, and the attempt is
\* over without having set isConnected.
C12_RelayFailure ==
  [][\A c \in mounted :
       (SubscribeFailed(c) \/ TrackFailed(c)) =>
         /\ hooks'[c].connectionError = ConnectFailed
         /\ SessionState(hooks'[c]) = "Error"
         /\ InFlight(hooks'[c]) = InFlight(hooks[c]) - 1
         /\ hooks'[c].isConnected = hooks[c].isConnected]_vars

\* every attempt is over, none has connected, and the one that acquired the
\* microphone and opened the channel has left the error string behind
C12_Witness ==
  \E c \in mounted :
    /\ hooks[c].connectionError = ConnectFailed
    /\ InFlight(hooks[c]) = 0
    /\ ~hooks[c].isConnected
    /\ hooks[c].localStream.held /\ hooks[c].leakedStreams = 0
    /\ hooks[c].channelRef.open /\ hooks[c].channelRef.tracked

\* live peer connections of the hook toward k: the one peersRef holds and
\* the ones that are alive outside peersRef
LiveCount(s, k) ==
  (IF k \in DOMAIN s.peers THEN 1 ELSE 0)
  + CopiesIn(Orphan(k, TRUE), s.orphans)
  + CopiesIn(Orphan(k, FALSE), s.orphans)

\* C13 (as claimed): in every reachable state a hook has at most one live
\* peer connection toward any remote nickname.
C13_OnePeerLinkPerPeer ==
  \A c \in mounted : \A k \in Ids : LiveCount(hooks[c], k) <= 1

\* C14 (as claimed): in every reachable state in which the session is
\* connected, toggleMute flips isMuted and hands the relay an activity
\* sample whose isMuted is the new flag, and every other hook that has the
\* sender in its roster shows the sender with that flag once its
\* voice_activity handler has run on the sample.
C14_MuteBroadcast ==
  \A c \in mounted :
    hooks[c].isConnected =>
      LET t == toggleMute(hooks[c], c)
          m == muteSample(hooks[c], c)
      IN  /\ t.isMuted = ~hooks[c].isMuted
          /\ m \in t.sent
          /\ m.isMuted = t.isMuted
          /\ \A d \in mounted \ {c} :
               c \in DOMAIN hooks[d].voiceUsers =>
                 onVoiceActivity(hooks[d], d, m.userId,
                   [isMuted |-> m.isMuted, isSpeaking |-> m.isSpeaking,
                    audioLevel |-> m.audioLevel]).voiceUsers[c].isMuted
                   = t.isMuted

\* C15: toggleDeafen changes nothing but isDeafened and the volumes: isMuted,
\* the enabled state of the outbound track, the PeerLinks (stored or not),
\* the channel and its subscription, isConnected, the error string and the
\* session state are as they were.
C15_ToggleDeafenFrame ==
  [][\A c \in mounted :
       ToggleDeafen(c) =>
         /\ hooks'[c].isMuted = hooks[c].isMuted
         /\ hooks'[c].localStream = hooks[c].localStream
         /\ hooks'[c].peers = hooks[c].peers
         /\ hooks'[c].orphans = hooks[c].orphans
         /\ hooks'[c].channelRef = hooks[c].channelRef
         /\ hooks'[c].leakedChannels = hooks[c].leakedChannels
         /\ SessionState(hooks'[c]) = SessionState(hooks[c])
         /\ [hooks'[c] EXCEPT !.isDeafened = hooks[c].isDeafened,
                              !.remoteAudios = hooks[c].remoteAudios]
              = hooks[c]]_vars

\* deafened while connected, an output silenced: the outbound track is
\* still enabled, both PeerLinks are in place and the channel is tracked
C15_Witness ==
  \E c \in mounted :
    /\ hooks[c].isDeafened
    /\ \E k \in DOMAIN hooks[c].remoteAudios : hooks[c].remoteAudios[k] = 0
    /\ SessionState(hooks[c]) = "Connected"
    /\ hooks[c].localStream.held /\ hooks[c].localStream.enabled
    /\ Cardinality(DOMAIN hooks[c].peers) = 2
    /\ hooks[c].channelRef.tracked

\* the moves of the session state machine as specified
Moves ==
  { <<"Disconnected", "Connecting">>, <<"Connecting", "Connected">>,
    <<"Connecting", "Error">>, <<"Connected", "Error">> }
  \cup { <<a, "Disconnected">> :
           a \in {"Connecting", "Connected", "Error"} }

\* C16 (as claimed): every step leaves the session state as it is or moves
\* it along Disconnected->Connecting, Connecting->Connected,
\* Connecting->Error, Connected->Error or to Disconnected, and the state
\* becomes Connected only when track() of an attempt resolves, which is
\* after its getUserMedia() and its subscribe() resolved.
C16_StateMachine ==
  [][\A c \in mounted :
       LET a == SessionState(hooks[c])
           b == SessionState(hooks'[c])
       IN  /\ a = b \/ <<a, b>> \in Moves
           /\ (b = "Connected" /\ a # b) => TrackResolved(c)]_vars

\* C17: no automatic retry.  In a state with an error string, a step starts
\* a getUserMedia() only if it is an operation of the user (enable, or a
\* call of connectToVoice); and once no attempt is suspended any more, every
\* other step leaves it so and acquires no stream and opens no channel.
C17_NoAutomaticRetry ==
  [][\A c \in mounted :
       hooks[c].connectionError # NULL =>
         /\ hooks'[c].attempts.media > hooks[c].attempts.media
               => (Enable(c) \/ CallConnectToVoice(c))
         /\ (InFlight(hooks[c]) = 0 /\ ~Enable(c) /\ ~CallConnectToVoice(c))
               => /\ InFlight(hooks'[c]) = 0
                  /\ hooks'[c].localStream \in {hooks[c].localStream, NoStream}
                  /\ hooks'[c].channelRef \in {hooks[c].channelRef, NoChannel}
                  /\ hooks'[c].loops <= hooks[c].loops]_vars

\* the only attempt of an enabled session was denied the microphone:
\* nothing is suspended, nothing was acquired, the error string stands
C17_Witness ==
  \E c \in mounted :
    /\ hooks[c].connectionError = ConnectFailed
    /\ hooks[c].isEnabled
    /\ InFlight(hooks[c]) = 0
    /\ ~hooks[c].localStream.held /\ hooks[c].loops = 0
    /\ ~ChannelLive(hooks[c])

\* a suspended connectToVoice resumes
Resumes(c) ==
  \/ MediaGranted(c) \/ MediaDenied(c)
  \/ SubscribeResolved(c) \/ SubscribeFailed(c)
  \/ TrackResolved(c) \/ TrackFailed(c)

\* C18 (as claimed): when a suspended attempt resumes in a session that has
\* been disabled, it leaves no microphone held, starts no sampling loop,
\* leaves no channel subscribed and no PeerLink, and sets neither
\* isConnected nor the error string.
C18_DisableCancelsPending ==
  [][\A c \in mounted :
       (~hooks[c].isEnabled /\ Resumes(c)) =>
         /\ ~hooks'[c].localStream.held
         /\ hooks'[c].leakedStreams <= hooks[c].leakedStreams
         /\ hooks'[c].loops <= hooks[c].loops
         /\ ~hooks'[c].channelRef.open
         /\ hooks'[c].leakedChannels <= hooks[c].leakedChannels
         /\ DOMAIN hooks'[c].peers = {}
         /\ ~hooks'[c].isConnected
         /\ hooks'[c].connectionError = NULL]_vars

\* C19 (as claimed): when a peer connection toward P has failed and its
\* 'error' and 'close' handlers have run, peersRef has no entry for P, no
\* remote audio output of P is attached and no live peer connection toward
\* P remains.
C19_PeerErrorCleanup ==
  [][\A c \in mounted, e \in Emitters :
       PeerError(c, e) =>
         /\ e.target \notin DOMAIN hooks'[c].peers
         /\ e.target \notin DOMAIN hooks'[c].remoteAudios
         /\ LiveCount(hooks'[c], e.target) = 0]_vars

\* C20 (as claimed): when subscribe() or track() of an attempt rejects,
\* then in the state the catch block leaves, the local stream is released,
\* no sampling loop runs and channelRef holds no channel.
C20_FailureReleases ==
  [][\A c \in mounted :
       (SubscribeFailed(c) \/ TrackFailed(c)) =>
         /\ ~hooks'[c].localStream.held
         /\ hooks'[c].loops = 0
         /\ ~hooks'[c].channelRef.open]_vars

\* C21 (as claimed): in every reachable state in which a sampling loop
\* runs, every activity sample that a frame of the loop hands to the relay
\* carries the isMuted of the hook at that moment.
C21_LoopSampleMuted ==
  \A c \in mounted : \A total \in ByteSums :
    hooks[c].loops > 0 =>
      \A m \in detectVoice(hooks[c], c, total).sent \ hooks[c].sent :
        m.isMuted = hooks[c].isMuted

\* C22 (as claimed): the roster entry of a participant who stays in the
\* roster changes only when the voice_activity handler runs on a sample of
\* that participant, and then it becomes that sample; a presence sync, join
\* or leave leaves it as it is.
C22_LastWriteWins ==
  [][\A c \in mounted :
       \A u \in DOMAIN hooks[c].voiceUsers \cap DOMAIN hooks'[c].voiceUsers :
         /\ \A sample \in ActivitySamples :
              (VoiceActivity(c, u, sample) /\ u # c)
                => hooks'[c].voiceUsers[u] = sample
         /\ (\A sample \in ActivitySamples : ~VoiceActivity(c, u, sample))
              => hooks'[c].voiceUsers[u] = hooks[c].voiceUsers[u]]_vars

\* C23 (as claimed): when the channelId prop changes, no PeerLink, no
\* remote audio output and no open channel of the old channelId is left;
\* and an enabled session whose channelId is id becomes connected on the
\* channel of id, unless it is disabled or switched again before.
C23_ChannelSwitch ==
  /\ [][\A c \in mounted :
          hooks'[c].channelId # hooks[c].channelId =>
            /\ DOMAIN hooks'[c].peers = {}
            /\ DOMAIN hooks'[c].remoteAudios = {}
            /\ ~hooks'[c].channelRef.open]_vars
  /\ \A c \in Ids : \A id \in ChannelIds :
       (c \in mounted /\ hooks[c].isEnabled /\ hooks[c].channelId = id)
         ~> \/ ~hooks[c].isEnabled
            \/ hooks[c].channelId # id
            \/ /\ hooks[c].isConnected
               /\ hooks[c].channelRef.open
               /\ hooks[c].channelRef.id = id

\* C24 (as claimed): in no reachable state do two participants A < B, each
\* announced and in the presence state of the other, both hold a PeerLink
\* toward the other in the non-initiator role.
C24_NoDoubleNonInitiator ==
  \A a \in mounted, b \in mounted :
    ~ /\ <<a, b>> \in Smaller
      /\ hooks[a].channelRef.tracked /\ hooks[b].channelRef.tracked
      /\ b \in hooks[a].pstate /\ a \in hooks[b].pstate
      /\ b \in DOMAIN hooks[a].peers /\ ~hooks[a].peers[b].initiator
      /\ a \in DOMAIN hooks[b].peers /\ ~hooks[b].peers[a].initiator

\* C25 (as claimed): the 'close' of a connection that was destroyed, and
\* the 'error' or 'close' of a connection that peersRef holds no more, leave
\* peersRef and the remote audio outputs as they are.
C25_LateCloseHarmless ==
  [][\A c \in mounted, e \in Emitters :
       (\/ PeerDestroyedClose(c, e)
        \/ (e.place = "orphan" /\ (PeerError(c, e) \/ PeerClose(c, e)))) =>
         /\ hooks'[c].peers = hooks[c].peers
         /\ hooks'[c].remoteAudios = hooks[c].remoteAudios]_vars

\* C26 (as claimed): in every reachable state the keys of peersRef are
\* nicknames that are in the presence state of the channel.
C26_PeerLinksArePresent ==
  \A c \in mounted : DOMAIN hooks[c].peers \subseteq hooks[c].pstate

\* C27 (as claimed): in every reachable state in which localStreamRef holds
\* a stream, its audio track is enabled iff isMuted is false.
C27_TrackFollowsMuted ==
  \A c \in mounted :
    hooks[c].localStream.held =>
      (hooks[c].localStream.enabled <=> ~hooks[c].isMuted)

\* C28: in every reachable state with a subscribed channel, the
\* webrtc_signal handler run on an envelope addressed to the local nickname
\* stores one new connection toward the sender, in the non-initiator role,
\* when peersRef has no entry for the sender, whichever of the two
\* nicknames is the smaller; and changes nothing when it has an entry.
C28_InboundNegotiation ==
  \A c \in mounted : \A from \in Ids \ {c} :
    ChannelLive(hooks[c]) =>
      LET s == hooks[c]
          t == onWebRTCSignal(s, c, from, c)
      IN  IF from \in DOMAIN s.peers
          THEN t = s
          ELSE t = [s EXCEPT !.peers = Put(@, from, [initiator |-> FALSE])]

\* the smaller nickname holds a non-initiator link toward the larger one:
\* the presence handlers would have made it the initiator
C28_Witness ==
  \E c \in mounted : \E k \in DOMAIN hooks[c].peers :
    /\ <<c, k>> \in Smaller
    /\ ~hooks[c].peers[k].initiator
    /\ LiveCount(hooks[c], k) = 1

\* C29: in every reachable state, the webrtc_signal handler of a hook run
\* on an envelope in flight whose target is not the nickname of the hook,
\* the hook's own envelopes included, leaves the hook as it is: peersRef
\* gets no entry and no connection answers.
C29_ForeignEnvelopeIgnored ==
  \A c \in mounted, d \in mounted : \A m \in hooks[c].signals :
    m.target # d => signalDelivered(hooks[d], d, m) = hooks[d]

\* the answer to an offer is in flight: the offer reached both hooks, and
\* its sender, who got it back from the relay, has no connection to itself
C29_Witness ==
  \E c \in mounted, d \in mounted : \E m \in hooks[d].signals :
    /\ m.kind = "answer" /\ m.from = d /\ m.target = c /\ c # d
    /\ ChannelLive(hooks[c])
    /\ d \in DOMAIN hooks[c].peers
    /\ c \notin DOMAIN hooks[c].peers

\* C30 (as claimed): an entry of peersRef whose connection emits neither
\* 'error' nor 'close' stays in peersRef until the presence-leave of its
\* key or a disconnectFromVoice (called by the connection effect or
\* directly): no other step removes it.
C30_NoNegotiationTimeout ==
  [][\A c \in mounted, k \in Ids :
       (k \in DOMAIN hooks[c].peers /\ k \notin DOMAIN hooks'[c].peers) =>
         \/ \E remains \in BOOLEAN : PresenceLeave(c, k, remains)
         \/ Enable(c) \/ Disable(c)
         \/ CallDisconnectFromVoice(c)
         \/ \E e \in Emitters :
              /\ e.place = "map" /\ e.target = k
              /\ PeerError(c, e) \/ PeerClose(c, e)]_vars

\* C32: toggleMute in the Connected state changes nothing but isMuted, the
\* enabled state of the outbound track and the samples sent: the PeerLinks
\* (stored or not), the remote audio outputs, the channel and its
\* subscription, isDeafened and the session state are as they were.
C32_ToggleMuteFrame ==
  [][\A c \in mounted :
       (SessionState(hooks[c]) = "Connected" /\ ToggleMute(c)) =>
         /\ hooks'[c].peers = hooks[c].peers
         /\ hooks'[c].orphans = hooks[c].orphans
         /\ hooks'[c].closing = hooks[c].closing
         /\ hooks'[c].remoteAudios = hooks[c].remoteAudios
         /\ hooks'[c].channelRef = hooks[c].channelRef
         /\ hooks'[c].leakedChannels = hooks[c].leakedChannels
         /\ hooks'[c].isDeafened = hooks[c].isDeafened
         /\ hooks'[c].localStream.held = hooks[c].localStream.held
         /\ SessionState(hooks'[c]) = "Connected"
         /\ [hooks'[c] EXCEPT !.isMuted = hooks[c].isMuted,
                              !.localStream = hooks[c].localStream,
                              !.sent = hooks[c].sent]
              = hooks[c]]_vars

\* muted while connected: the track is disabled, the mute sample was sent,
\* both PeerLinks and both remote audio outputs are in place
C32_Witness ==
  \E c \in mounted :
    /\ SessionState(hooks[c]) = "Connected"
    /\ hooks[c].isMuted
    /\ hooks[c].localStream.held /\ ~hooks[c].localStream.enabled
    /\ muteSample([hooks[c] EXCEPT !.isMuted = FALSE], c) \in hooks[c].sent
    /\ Cardinality(DOMAIN hooks[c].peers) = 2
    /\ Cardinality(DOMAIN hooks[c].remoteAudios) = 2
    /\ hooks[c].channelRef.tracked

\* C33: in every reachable state with a sampling loop running, a frame
\* whose level is not above 0.05, and any frame while channelRef is null,
\* sends nothing and changes nothing; any other frame changes nothing but
\* the samples sent, by one sample that carries the level of the frame.
C33_BroadcastGate ==
  \A c \in mounted : \A total \in ByteSums :
    hooks[c].loops > 0 =>
      LET s == hooks[c]
          level == normalizedLevel(total)
          t == detectVoice(s, c, total)
      IN  /\ (~s.channelRef.open \/ level * 100 <= BroadcastThreshold * LevelScale)
                => t = s
          /\ [t EXCEPT !.sent = s.sent] = s
          /\ \A m \in t.sent \ s.sent : m.userId = c /\ m.audioLevel = level

\* a frame just above 0.05 was broadcast by a loop that is still running
C33_Witness ==
  \E c \in mounted : \E m \in hooks[c].sent :
    /\ hooks[c].loops > 0 /\ hooks[c].channelRef.open
    /\ m.audioLevel = 820 /\ ~m.isSpeaking

\* C36: the level of every window of bytes is within [0, 1] and equals
\* min(mean / 128, 1): 0 for the all-zero window, 1 for every mean of 128 or
\* more, mean / 128 below; every sample the sampling loop sends carries it.
\* (Levels are in units of 1 / LevelScale.)
C36_LevelRange ==
  /\ \A total \in ByteSums :
        LET level == normalizedLevel(total)
        IN  /\ 0 <= level /\ level <= LevelScale
            /\ total = 0 => level = 0
            /\ total >= 128 * frequencyBinCount => level = LevelScale
            /\ total < 128 * frequencyBinCount => level = total
  /\ \A c \in mounted : \A total \in ByteSums :
        \A m \in detectVoice(hooks[c], c, total).sent :
          0 <= m.audioLevel /\ m.audioLevel <= LevelScale

\* a saturated sample was broadcast: the window's mean was 128 or more
C36_Witness ==
  \E c \in mounted : \E m \in hooks[c].sent :
    m.audioLevel = LevelScale /\ m.isSpeaking

\* C34 (as claimed): in every reachable state whose session state is
\* Connected, localStreamRef holds a stream, channelRef holds a channel and
\* the error string is null.
C34_ConnectedHolds ==
  \A c \in mounted :
    SessionState(hooks[c]) = "Connected" =>
      /\ hooks[c].localStream.held
      /\ hooks[c].channelRef.open
      /\ hooks[c].connectionError = NULL

\* C35 (as claimed): a failure of the relay transport in the Connected
\* state leaves the session in the Error state, with an error string.
C35_TransportFailure ==
  [][\A c \in mounted :
       (SessionState(hooks[c]) = "Connected" /\ TransportFailure(c)) =>
         /\ SessionState(hooks'[c]) = "Error"
         /\ hooks'[c].connectionError # NULL]_vars

\* every pair of participants has its connection on both sides: the
\* smaller nickname as initiator, the larger as non-initiator
Formed ==
  \A a \in mounted, b \in mounted :
    LexLess(a, b) =>
      /\ b \in DOMAIN hooks[a].peers /\ hooks[a].peers[b].initiator
      /\ a \in DOMAIN hooks[b].peers /\ ~hooks[b].peers[a].initiator

====
